---- MODULE Spec2Model ----
(***************************************************************************)
(* Model of my_sram_project/sram_config.py, the OpenRAM configuration      *)
(* module.  The file is a straight-line sequence of assignment statements  *)
(* executed top to bottom in the module's namespace; fourteen statements   *)
(* bind a literal and one (output_name) binds the value of an f-string     *)
(* that interpolates three names bound earlier.                            *)
(*                                                                         *)
(* Text that is formatted (output_name) is a sequence of one-character     *)
(* strings, so that the decimal rendering of an integer is computed and    *)
(* not assumed.  The float literal 1.8 is the decimal [mantissa 18,        *)
(* exponent -1].  Python lists are sequences.                              *)
(***************************************************************************)
EXTENDS Integers, Sequences, FiniteSets, TLC

VARIABLES
    file,   \* the statements of sram_config.py, in source order
    ns,     \* the module namespace: bound name -> value
    pc,     \* number of statements of the current pass already executed
    exc,    \* "none", or the exception that aborted the pass
    loads   \* number of the current pass over the file in this process

vars == <<file, ns, pc, exc, loads>>

\* Passes over the file that one process makes (first load plus reloads).
MaxLoads == 7

----------------------------------------------------------------------------
(* The source text *)

\* Variants of the literals (used to test the properties below): a 64-bit
\* word, and a packing factor that does not divide the depth.
AsWrittenWide ==
    [ word_size |-> 64, words_per_row |-> 4, num_words |-> 1024,
      num_banks |-> 1, num_rw_ports |-> 1, num_r_ports |-> 0,
      num_w_ports |-> 0, tech_name |-> "freepdk45",
      process_corners |-> <<"TT">>,
      supply_voltages |-> <<[mantissa |-> 18, exponent |-> -1]>>,
      temperatures |-> <<25>>, output_path |-> "output",
      analytical_delay |-> TRUE, nominal_corner_only |-> TRUE ]

AsWrittenOddRow == [AsWrittenWide EXCEPT !.word_size = 32, !.words_per_row = 3]

\* The literal on the right-hand side of each literal assignment, as written.
AsWritten ==
    [ word_size           |-> 32,
      words_per_row       |-> 4,
      num_words           |-> 1024,
      num_banks           |-> 1,
      num_rw_ports        |-> 1,
      num_r_ports         |-> 0,
      num_w_ports         |-> 0,
      tech_name           |-> "freepdk45",
      process_corners     |-> <<"TT">>,
      supply_voltages     |-> <<[mantissa |-> 18, exponent |-> -1]>>,
      temperatures        |-> <<25>>,
      output_path         |-> "output",
      analytical_delay    |-> TRUE,
      nominal_corner_only |-> TRUE ]

\* A literal assignment  target = value  on the given source line.
Literal(line, target, value) ==
    [line |-> line, target |-> target, kind |-> "literal",
     value |-> value, parts |-> <<>>]

\* Pieces of an f-string: literal text, or a replacement field {name}.
Text(chars) == [kind |-> "text",  text |-> chars, name |-> ""]
Field(name) == [kind |-> "field", text |-> <<>>,  name |-> name]

\* An assignment  target = f"..."  on the given source line.
FString(line, target, parts) ==
    [line |-> line, target |-> target, kind |-> "fstring",
     value |-> <<>>, parts |-> parts]

\* Variant: the first replacement field names words_per_row.
OutputNameTemplateRow ==
    << Text(<<"s", "r", "a", "m", "_">>), Field("words_per_row"),
       Text(<<"x">>),                     Field("num_words"),
       Text(<<"_">>),                     Field("num_banks"),
       Text(<<"b", "a", "n", "k">>) >>

\* f"sram_{word_size}x{num_words}_{num_banks}bank"
OutputNameTemplate ==
    << Text(<<"s", "r", "a", "m", "_">>), Field("word_size"),
       Text(<<"x">>),                     Field("num_words"),
       Text(<<"_">>),                     Field("num_banks"),
       Text(<<"b", "a", "n", "k">>) >>

\* The literal statements of lines 12-34 and of lines 40-41.
Head12(lit) ==
    << Literal(12, "word_size",           lit.word_size),
       Literal(13, "words_per_row",       lit.words_per_row),
       Literal(14, "num_words",           lit.num_words),
       Literal(15, "num_banks",           lit.num_banks),
       Literal(21, "num_rw_ports",        lit.num_rw_ports),
       Literal(22, "num_r_ports",         lit.num_r_ports),
       Literal(23, "num_w_ports",         lit.num_w_ports),
       Literal(26, "tech_name",           lit.tech_name),
       Literal(29, "process_corners",     lit.process_corners),
       Literal(30, "supply_voltages",     lit.supply_voltages),
       Literal(31, "temperatures",        lit.temperatures),
       Literal(34, "output_path",         lit.output_path) >>

Tail40(lit) ==
    << Literal(40, "analytical_delay",    lit.analytical_delay),
       Literal(41, "nominal_corner_only", lit.nominal_corner_only) >>

\* Variant: the output_path assignment is missing.
sram_configNoPath(lit) ==
    SubSeq(Head12(lit), 1, 11)
      \o <<FString(35, "output_name", OutputNameTemplate)>> \o Tail40(lit)

\* Variant: num_banks is assigned a second time at the end of the file.
sram_configRebind(lit) ==
    Head12(lit) \o <<FString(35, "output_name", OutputNameTemplate)>>
      \o Tail40(lit) \o <<Literal(42, "num_banks", lit.num_banks + 1)>>

\* Variant: output_name is derived before num_banks is assigned.
sram_configEarlyName(lit) ==
    SubSeq(Head12(lit), 1, 3)
      \o <<FString(35, "output_name", OutputNameTemplate)>>
      \o SubSeq(Head12(lit), 4, 12) \o Tail40(lit)

\* The statements of the file, top to bottom, with literals lit.
sram_config(lit) ==
    << Literal(12, "word_size",           lit.word_size),
       Literal(13, "words_per_row",       lit.words_per_row),
       Literal(14, "num_words",           lit.num_words),
       Literal(15, "num_banks",           lit.num_banks),
       Literal(21, "num_rw_ports",        lit.num_rw_ports),
       Literal(22, "num_r_ports",         lit.num_r_ports),
       Literal(23, "num_w_ports",         lit.num_w_ports),
       Literal(26, "tech_name",           lit.tech_name),
       Literal(29, "process_corners",     lit.process_corners),
       Literal(30, "supply_voltages",     lit.supply_voltages),
       Literal(31, "temperatures",        lit.temperatures),
       Literal(34, "output_path",         lit.output_path),
       FString(35, "output_name",         OutputNameTemplate),
       Literal(40, "analytical_delay",    lit.analytical_delay),
       Literal(41, "nominal_corner_only", lit.nominal_corner_only) >>

\* Values a user may write in place of the literals ("Edit the ... values
\* under CONFIGURE YOUR SRAM"), valid and invalid ones alike.
WordSizes    == {8, 32}
WordsPerRows == {4, 7}
NumWordsSet  == {-256, 30, 1024}
NumBanksSet  == {0, 1, 2, 3}
RwPortsSet   == {0, 1}
CornerLists  == {<<"TT">>, <<"XX">>, <<>>}

Edits ==
    { [AsWritten EXCEPT !.word_size = ws, !.words_per_row = wpr,
                        !.num_words = nw, !.num_banks = nb,
                        !.num_rw_ports = rw, !.process_corners = pcs] :
        ws \in WordSizes, wpr \in WordsPerRows, nw \in NumWordsSet,
        nb \in NumBanksSet, rw \in RwPortsSet, pcs \in CornerLists }

----------------------------------------------------------------------------
(* Evaluation *)

DigitChar == <<"0", "1", "2", "3", "4", "5", "6", "7", "8", "9">>

\* Digits of a natural number, most significant first.
RECURSIVE Digits(_)
Digits(n) ==
    IF n < 10 THEN <<DigitChar[n + 1]>>
    ELSE Digits(n \div 10) \o <<DigitChar[(n % 10) + 1]>>

\* Variant: zero padding to four digits, as {n:04d} would produce.
strPadded(n) ==
    LET d == Digits(IF n < 0 THEN -n ELSE n)
        pad == [i \in 1..(IF Len(d) < 4 THEN 4 - Len(d) ELSE 0) |-> "0"]
    IN  (IF n < 0 THEN <<"-">> ELSE <<>>) \o pad \o d

\* str(n) for an int n, which is what a replacement field without a format
\* spec produces.
str(n) == IF n < 0 THEN <<"-">> \o Digits(-n) ELSE Digits(n)

\* The names an expression reads.
Names(stmt) ==
    {stmt.parts[i].name : i \in {j \in 1..Len(stmt.parts) :
                                    stmt.parts[j].kind = "field"}}

\* The text of an f-string in namespace env.
RECURSIVE FormatFString(_, _)
FormatFString(parts, env) ==
    IF parts = <<>> THEN <<>>
    ELSE LET p == Head(parts)
         IN  (IF p.kind = "text" THEN p.text ELSE str(env[p.name]))
               \o FormatFString(Tail(parts), env)

\* The value of the right-hand side of a statement.
Value(stmt, env) ==
    IF stmt.kind = "literal" THEN stmt.value
    ELSE FormatFString(stmt.parts, env)

\* Variant: the bank count is validated when it is assigned.
RaisesValidating(stmt, env) ==
    IF ~(Names(stmt) \subseteq DOMAIN env) THEN "NameError"
    ELSE IF stmt.target = "num_banks" /\ stmt.value \notin {1, 2}
         THEN "ValueError"
         ELSE "none"

\* The exception executing a statement raises: reading an unbound name is a
\* NameError; nothing else in the file can raise.
Raises(stmt, env) ==
    IF Names(stmt) \subseteq DOMAIN env THEN "none" ELSE "NameError"

\* Variant: output_name accumulates ( += ) when it is already bound.
AssignAccumulate(env, target, value) ==
    [n \in (DOMAIN env) \cup {target} |->
        IF n = target
        THEN IF target = "output_name" /\ target \in DOMAIN env
             THEN env[target] \o value
             ELSE value
        ELSE env[n]]

\* Binding a name in the namespace (rebinding replaces the old value).
Assign(env, target, value) ==
    [n \in (DOMAIN env) \cup {target} |->
        IF n = target THEN value ELSE env[n]]

\* One whole pass over statements stmts, starting from namespace env.
RECURSIVE Run(_, _)
Run(stmts, env) ==
    IF stmts = <<>> \/ Raises(Head(stmts), env) # "none" THEN env
    ELSE Run(Tail(stmts),
             Assign(env, Head(stmts).target, Value(Head(stmts), env)))

EmptyNamespace == [n \in {} |-> 0]

----------------------------------------------------------------------------
(* The load *)

\* The file as written is loaded into a fresh namespace.
Init ==
    /\ file = sram_config(AsWritten)
    /\ ns = EmptyNamespace
    /\ pc = 0
    /\ exc = "none"
    /\ loads = 1

\* The file with edited literals is loaded into a fresh namespace.
InitEdited ==
    /\ file \in {sram_config(lit) : lit \in Edits}
    /\ ns = EmptyNamespace
    /\ pc = 0
    /\ exc = "none"
    /\ loads = 1

Loading == exc = "none" /\ pc < Len(file)
Loaded  == exc = "none" /\ pc = Len(file)

\* Execute the next statement.
Exec(stmt) ==
    IF Raises(stmt, ns) = "none"
    THEN /\ ns' = Assign(ns, stmt.target, Value(stmt, ns))
         /\ pc' = pc + 1
         /\ exc' = exc
    ELSE /\ exc' = Raises(stmt, ns)
         /\ UNCHANGED <<ns, pc>>

\* target = <literal>
ExecLiteral ==
    /\ Loading
    /\ file[pc + 1].kind = "literal"
    /\ Exec(file[pc + 1])
    /\ UNCHANGED <<file, loads>>

\* output_name = f"..."
ExecFString ==
    /\ Loading
    /\ file[pc + 1].kind = "fstring"
    /\ Exec(file[pc + 1])
    /\ UNCHANGED <<file, loads>>

\* The same process loads the file again; the namespace is kept.
Reload ==
    /\ Loaded
    /\ loads < MaxLoads
    /\ pc' = 0
    /\ loads' = loads + 1
    /\ UNCHANGED <<file, ns, exc>>

Next == ExecLiteral \/ ExecFString \/ Reload

Spec       == Init /\ [][Next]_vars
SpecEdited == InitEdited /\ [][Next]_vars

\* The interpreter runs a pass to its end: no suspension points.
Fairness == WF_vars(ExecLiteral) /\ WF_vars(ExecFString)

FairSpec       == Spec /\ Fairness
FairSpecEdited == SpecEdited /\ Fairness

----------------------------------------------------------------------------
(* Vocabulary of the properties *)

\* The fields the data model declares for SramConfiguration.
DataModelFields ==
    { "word_size", "words_per_row", "num_words", "num_banks",
      "num_rw_ports", "num_r_ports", "num_w_ports", "tech_name",
      "process_corners", "supply_voltages", "temperatures",
      "output_path", "output_name", "analytical_delay",
      "nominal_corner_only" }

\* Names under which OpenRAM technology descriptions of SKY130 go.
Sky130Names == {"sky130", "sky130A", "sky130B", "SKY130"}

\* The names bound so far by the current pass.
AssignedThisLoad == {file[i].target : i \in 1..pc}

DigitOf(c) == CHOOSE d \in 0..9 : DigitChar[d + 1] = c

\* The number a string of decimal digits denotes.
RECURSIVE NumeralValue(_)
NumeralValue(s) ==
    IF s = <<>> THEN 0
    ELSE 10 * NumeralValue(SubSeq(s, 1, Len(s) - 1)) + DigitOf(s[Len(s)])

\* s is the decimal numeral of the natural number n: digits only, at least
\* one, no leading zero, no padding or separators.
IsDecimalOf(s, n) ==
    /\ Len(s) >= 1
    /\ \A i \in 1..Len(s) : \E d \in 1..10 : s[i] = DigitChar[d]
    /\ Len(s) > 1 => s[1] # "0"
    /\ NumeralValue(s) = n

\* o is "sram_" + a + "x" + b + "_" + c + "bank" for the decimal numerals
\* a, b, c of the three numbers.
IsSramName(o, a, b, c) ==
    \E i, j \in 1..Len(o) :
        /\ 6 <= i /\ i + 2 <= j /\ j + 2 <= Len(o) - 4
        /\ SubSeq(o, 1, 5) = <<"s", "r", "a", "m", "_">>
        /\ IsDecimalOf(SubSeq(o, 6, i), a)
        /\ o[i + 1] = "x"
        /\ IsDecimalOf(SubSeq(o, i + 2, j), b)
        /\ o[j + 1] = "_"
        /\ IsDecimalOf(SubSeq(o, j + 2, Len(o) - 4), c)
        /\ SubSeq(o, Len(o) - 3, Len(o)) = <<"b", "a", "n", "k">>

ValidTriple(env) ==
    env.word_size > 0 /\ env.num_words > 0 /\ env.num_banks \in {1, 2}

----------------------------------------------------------------------------
(* Properties *)

\* C1: for all valid (word_size, num_words, num_banks), after load
\* output_name is "sram_" + word_size + "x" + num_words + "_" + num_banks +
\* "bank" with the three integers in plain decimal; 32, 1024, 1 gives
\* "sram_32x1024_1bank".
OutputNameIsConcatenation ==
    (Loaded /\ ValidTriple(ns)) =>
        /\ IsSramName(ns.output_name, ns.word_size, ns.num_words, ns.num_banks)
        /\ (ns.word_size = 32 /\ ns.num_words = 1024 /\ ns.num_banks = 1) =>
              ns.output_name = <<"s", "r", "a", "m", "_", "3", "2", "x",
                                 "1", "0", "2", "4", "_", "1",
                                 "b", "a", "n", "k">>

OutputNameIsConcatenationWitness ==
    /\ Loaded /\ ValidTriple(ns)
    /\ ns.word_size = 8 /\ ns.num_words = 30 /\ ns.num_banks = 2
    /\ ns.output_name = <<"s", "r", "a", "m", "_", "8", "x", "3", "0", "_",
                          "2", "b", "a", "n", "k">>

ReloadIsIdempotent ==
    Loaded => ns = Run(file, EmptyNamespace)

ReloadIsIdempotentWitness ==
    Loaded /\ loads = 2 /\ ns = Run(file, ns)

\* C4 (as stated): the loaded configuration exposes exactly the fields of the
\* data model, and they are 16.
ExposesSixteenFields ==
    Loaded => (DOMAIN ns = DataModelFields /\ Cardinality(DOMAIN ns) = 16)

\* C4 (amended): the loaded configuration exposes exactly the fields of the
\* data model, each under its own name, and they are 15.
ExposesFifteenFields ==
    Loaded => (DOMAIN ns = DataModelFields /\ Cardinality(DOMAIN ns) = 15)

ExposesFifteenFieldsWitness ==
    Loaded /\ Cardinality(DOMAIN ns) = 15 /\ "output_path" \in DOMAIN ns

\* C5: whatever values are written, invalid combinations included, the load
\* completes with every literal field set as written and never raises.
LoadNeverRejects ==
    /\ <>Loaded
    /\ [](exc = "none")
    /\ [](Loaded => \A i \in 1..Len(file) :
                      file[i].kind = "literal" =>
                          /\ file[i].target \in DOMAIN ns
                          /\ ns[file[i].target] = file[i].value)

LoadNeverRejectsWitness ==
    /\ Loaded
    /\ ns.num_banks = 3
    /\ ns.num_words < 0
    /\ ns.num_words % ns.words_per_row # 0
    /\ ns.num_rw_ports + ns.num_r_ports + ns.num_w_ports = 0
    /\ ns.process_corners = <<"XX">>

\* C6: after load tech_name identifies the SKY130 process, as the file
\* header and the supply-voltage comment state.
TechIsSky130 ==
    Loaded => ns.tech_name \in Sky130Names

\* C7: within one pass no name is assigned twice, a bound name never changes
\* value in any later step, and a completed pass has assigned every field.
WriteOnceStep ==
    /\ \A f \in DOMAIN ns : f \in DOMAIN ns' /\ ns'[f] = ns[f]
    /\ pc' = pc + 1 => /\ file[pc'].target \notin AssignedThisLoad
                       /\ DOMAIN ns' = DOMAIN ns \cup {file[pc'].target}
    /\ Loaded' => DOMAIN ns' = {file[i].target : i \in 1..Len(file)}

WriteOnce == [][WriteOnceStep]_vars

WriteOnceWitness ==
    /\ Loading /\ loads = 2 /\ pc = 4
    /\ ns.num_banks = 3 /\ "nominal_corner_only" \in DOMAIN ns

\* C8: every pass terminates, and output_name is derived only after
\* word_size, num_words and num_banks were assigned by that pass, so it is
\* never computed from an unassigned name.
LoadTerminatesInOrder ==
    /\ Loading ~> Loaded
    /\ [](exc = "none")
    /\ []((Loading /\ file[pc + 1].kind = "fstring") =>
             /\ Names(file[pc + 1]) = {"word_size", "num_words", "num_banks"}
             /\ Names(file[pc + 1]) \subseteq AssignedThisLoad)

LoadTerminatesInOrderWitness ==
    /\ Loaded /\ loads = 1
    /\ {"word_size", "num_words", "num_banks", "output_name"} \subseteq DOMAIN ns

\* C9: output_name is a function of word_size, num_words and num_banks
\* alone, and an injective one: a load of any other edit of the file yields
\* the same output_name exactly when it agrees on those three fields.
OutputNameDependsOnTripleOnly ==
    Loaded =>
        \A lit \in Edits :
            LET other == Run(sram_config(lit), EmptyNamespace)
            IN  (other.output_name = ns.output_name)
                  <=> /\ other.word_size = ns.word_size
                      /\ other.num_words = ns.num_words
                      /\ other.num_banks = ns.num_banks

OutputNameDependsOnTripleOnlyWitness ==
    /\ Loaded /\ loads = 1
    /\ \E l1, l2 \in Edits :
         /\ Run(sram_config(l1), EmptyNamespace) = ns
         /\ l2.words_per_row # l1.words_per_row
         /\ l2.num_rw_ports # l1.num_rw_ports
         /\ l2.process_corners # l1.process_corners
         /\ Run(sram_config(l2), EmptyNamespace).output_name = ns.output_name

\* C10: the defaults as loaded satisfy the documented constraints: positive
\* word_size, words_per_row, num_words; num_banks 1 or 2; non-negative port
\* counts with at least one port; words_per_row divides num_words; one entry
\* in each PVT list, with nominal_corner_only set.
DefaultsSatisfyConstraints ==
    Loaded =>
        /\ ns.word_size > 0 /\ ns.words_per_row > 0 /\ ns.num_words > 0
        /\ ns.num_banks \in {1, 2}
        /\ ns.num_rw_ports >= 0 /\ ns.num_r_ports >= 0 /\ ns.num_w_ports >= 0
        /\ ns.num_rw_ports + ns.num_r_ports + ns.num_w_ports >= 1
        /\ ns.num_words % ns.words_per_row = 0
        /\ Len(ns.process_corners) = 1
        /\ Len(ns.supply_voltages) = 1
        /\ Len(ns.temperatures) = 1
        /\ ns.nominal_corner_only = TRUE

DefaultsSatisfyConstraintsWitness ==
    /\ Loaded
    /\ ns.num_words = 1024 /\ ns.words_per_row = 4
    /\ ns.nominal_corner_only = TRUE /\ Len(ns.process_corners) = 1

====
